---- MODULE Spec2Model ----
(***************************************************************************)
(* A model of assets_rocket_fairing (src/src/lib.rs): the AssetsFairing    *)
(* lifecycle hooks (on_ignite, on_liftoff), the Assets registry kept in    *)
(* Rocket's managed state, the request guard for &Assets, Assets::open and *)
(* the Asset responder.                                                    *)
(*                                                                         *)
(* Paths are PathBuf values: an absolute flag, the components and whether  *)
(* the text ends in a separator.  Text (header values) is a sequence of    *)
(* one-character strings.  An Option is a sequence of length 0 or 1.       *)
(***************************************************************************)
EXTENDS Integers, Sequences, FiniteSets, TLC

VARIABLES
    fs,          \* the filesystem: node -> "dir" | "file" | "link" | "none"
    attached,    \* whether the application attached Assets::fairing()
    assets_dir,  \* the figment's value for the key assets_dir
    assets_max_age, \* the figment's value for the key assets_max_age
    phase,       \* Rocket's lifecycle: "build", "ignited", "failed", "orbit", "panicked"
    managed,     \* Rocket's managed state of type Assets (rocket.manage)
    log,         \* what the fairing wrote to the log
    req,         \* per request: the handler's locals and the outcome
    consumed     \* per request: how often its Asset went through respond_to

vars == <<fs, attached, assets_dir, assets_max_age, phase, managed, log, req, consumed>>

\* ------------------------------------------------------------------ bounds

\* the number of requests in flight at the same time
MaxRequests == 2

Requests == 1..MaxRequests

\* ------------------------------------------------------------- i32, text

DefaultMaxAge == 86400

Digits == <<"0", "1", "2", "3", "4", "5", "6", "7", "8", "9">>

RECURSIVE FmtNat(_)
\* Display for a non-negative integer: its decimal digits
FmtNat(n) == IF n < 10 THEN <<Digits[n + 1]>>
             ELSE FmtNat(n \div 10) \o <<Digits[(n % 10) + 1]>>

\* format!("{}", i32): a minus sign for negative values, then the digits
FmtI32(n) == IF n < 0 THEN <<"-">> \o FmtNat(0 - n) ELSE FmtNat(n)

MaxAgePrefix == <<"m", "a", "x", "-", "a", "g", "e", "=">>

\* format!("max-age={}", self.cache_max_age)
CacheControlValue(cache_max_age) == MaxAgePrefix \o FmtI32(cache_max_age)

\* ------------------------------------------------------------------ paths

PathBuf(abs, comps, slash) == [abs |-> abs, comps |-> comps, slash |-> slash]

\* the process working directory (also where Rocket.toml lives)
Cwd == <<"srv">>
CwdPath == PathBuf(TRUE, Cwd, FALSE)

\* PathBuf::push of a relative argument: appended after a separator
PushShared(base, p) == [abs |-> base.abs, comps |-> base.comps \o p.comps, slash |-> p.slash]
\* PathBuf::push: an absolute argument replaces the path, a relative one is
\* appended
Push(base, p) == IF p.abs THEN p ELSE PushShared(base, p)

\* ------------------------------------------------------------- filesystem

Nodes == { <<>>, <<"srv">>, <<"srv", "static">>, <<"srv", "static", "style.css">>,
           <<"srv", "conf">>, <<"srv", "pub">>, <<"srv", "assets">>,
           <<"srv", "assets", "logo.png">>, <<"etc">>, <<"etc", "passwd">> }

\* the one symbolic link: /srv/pub -> /srv/static
LinkTarget(node) == <<"srv", "static">>

\* the filesystem, by what is at /srv/assets: a directory, a regular file or nothing
MkFs(assetsKind) ==
    [n \in Nodes |->
        CASE n \in { <<>>, <<"srv">>, <<"srv", "static">>, <<"etc">> } -> "dir"
          [] n \in { <<"srv", "static", "style.css">>, <<"srv", "conf">>, <<"etc", "passwd">> } -> "file"
          [] n = <<"srv", "pub">> -> "link"
          [] n = <<"srv", "assets">> -> assetsKind
          [] n = <<"srv", "assets", "logo.png">> -> IF assetsKind = "dir" THEN "file" ELSE "none"]

KindOf(f, n) == IF n \in Nodes THEN f[n] ELSE "none"

Parent(n) == IF n = <<>> THEN <<>> ELSE SubSeq(n, 1, Len(n) - 1)

Resolved(n) == [ok |-> TRUE, err |-> "", node |-> n]
Failed(e) == [ok |-> FALSE, err |-> e, node |-> <<>>]

RECURSIVE Walk(_, _, _, _)
\* the kernel's path walk from directory cur over comps, following links
Walk(f, cur, comps, slash) ==
    IF comps = <<>> THEN
        IF slash /\ KindOf(f, cur) # "dir" THEN Failed("ENOTDIR") ELSE Resolved(cur)
    ELSE IF KindOf(f, cur) # "dir" THEN Failed("ENOTDIR")
    ELSE LET c == Head(comps)
             next == cur \o <<c>>
         IN  IF c = "." THEN Walk(f, cur, Tail(comps), slash)
             ELSE IF c = ".." THEN Walk(f, Parent(cur), Tail(comps), slash)
             ELSE IF KindOf(f, next) = "none" THEN Failed("ENOENT")
             ELSE IF KindOf(f, next) = "link" THEN Walk(f, LinkTarget(next), Tail(comps), slash)
             ELSE Walk(f, next, Tail(comps), slash)

\* resolution of a PathBuf by the kernel: relative paths start at the working directory
Resolve(f, p) == Walk(f, IF p.abs THEN <<>> ELSE Cwd, p.comps, p.slash)

\* ---------------------------------------------------------- configuration

NoPath == PathBuf(FALSE, <<>>, FALSE)

\* what the figment can hold for assets_dir: nothing, a value that is no path,
\* or a path (read from Rocket.toml in the working directory, or from the
\* environment)
DirSettings ==
    { [kind |-> "missing", path |-> NoPath, fromFile |-> FALSE],
      [kind |-> "wrongtype", path |-> NoPath, fromFile |-> FALSE],
      [kind |-> "value", path |-> PathBuf(FALSE, <<"static">>, FALSE), fromFile |-> TRUE],
      [kind |-> "value", path |-> PathBuf(FALSE, <<"pub", ".", "..", "pub">>, TRUE), fromFile |-> FALSE],
      [kind |-> "value", path |-> PathBuf(FALSE, <<"nope">>, FALSE), fromFile |-> TRUE],
      [kind |-> "value", path |-> PathBuf(FALSE, <<"conf">>, FALSE), fromFile |-> FALSE] }

\* what the figment can hold for assets_max_age: nothing, a value that is no
\* integer, an integer that fits an i32 ("i32", with its value), or an integer
\* that does not ("toobig")
MaxAgeSettings ==
    { [kind |-> "missing", value |-> 0],
      [kind |-> "wrongtype", value |-> 0],
      [kind |-> "i32", value |-> 3600],
      [kind |-> "i32", value |-> -1],
      [kind |-> "toobig", value |-> 0] }

\* RelativePathBuf::relative: the path relative to the file that configured it,
\* the path itself when it did not come from a file
Relative(setting) == IF setting.fromFile THEN Push(CwdPath, setting.path) ELSE setting.path

\* the default literal "assets/"
DefaultDir == PathBuf(FALSE, <<"assets">>, TRUE)

\* extract_inner::<RelativePathBuf>("assets_dir").map(|path| path.relative()),
\* then the match on it: the directory to use, or the configuration error
ConfiguredDir(setting) ==
    IF setting.kind = "value" THEN [ok |-> TRUE, path |-> Relative(setting)]
    ELSE IF setting.kind = "missing" THEN [ok |-> TRUE, path |-> DefaultDir]
    ELSE [ok |-> FALSE, path |-> NoPath]

\* variant of Normalize: a path that cannot be resolved is used as it is
MutNormalizeLenient(f, p) ==
    LET r == Resolve(f, p)
    IN  IF r.ok THEN [ok |-> TRUE, err |-> "", path |-> PathBuf(TRUE, r.node, FALSE)]
        ELSE [ok |-> TRUE, err |-> "", path |-> p]
\* normpath's normalize: the canonical absolute path of an existing path
\* (it does not ask what kind of file the path names)
Normalize(f, p) ==
    LET r == Resolve(f, p)
    IN  IF r.ok THEN [ok |-> TRUE, err |-> "", path |-> PathBuf(TRUE, r.node, FALSE)]
        ELSE [ok |-> FALSE, err |-> r.err, path |-> NoPath]

\* variant of ConfiguredMaxAge: unwrap_or_default()
MutConfiguredMaxAgeZero(setting) ==
    IF setting.kind = "i32" THEN setting.value ELSE 0
\* extract_inner::<i32>("assets_max_age").unwrap_or(86400): every extraction
\* error (missing, wrong type, out of i32's range) gives the default
ConfiguredMaxAge(setting) ==
    IF setting.kind = "i32" THEN setting.value ELSE DefaultMaxAge

\* struct Assets
Assets(path, cache_max_age) == [path |-> path, cache_max_age |-> cache_max_age]

\* rocket.state::<Assets>()
State(mgd) == IF mgd = <<>> THEN <<>> ELSE <<mgd[1]>>

\* -------------------------------------------------------------- lifecycle

Init ==
    /\ fs \in { MkFs(k) : k \in {"dir", "file", "none"} }
    /\ attached \in BOOLEAN
    /\ assets_dir \in DirSettings
    /\ assets_max_age \in MaxAgeSettings
    /\ phase = "build"
    /\ managed = <<>>
    /\ log = <<>>
    /\ req = [r \in Requests |->
                [guard |-> <<>>, opened |-> <<>>, result |-> <<>>, asset |-> <<>>,
                 response |-> <<>>, respond_err |-> FALSE]]
    /\ consumed = [r \in Requests |-> 0]

\* AssetsFairing::on_ignite; Err(rocket) aborts the launch
OnIgnite ==
    /\ phase = "build"
    /\ attached
    /\ LET dir == ConfiguredDir(assets_dir)
           norm == Normalize(fs, dir.path)
       IN  IF ~dir.ok THEN
               /\ phase' = "failed"
               /\ log' = Append(log, [what |-> "config_error", path |-> NoPath, age |-> 0])
               /\ UNCHANGED managed
           ELSE IF ~norm.ok THEN
               /\ phase' = "failed"
               /\ log' = Append(log, [what |-> "invalid_dir", path |-> dir.path, age |-> 0])
               /\ UNCHANGED managed
           ELSE
               /\ phase' = "ignited"
               /\ managed' = Append(managed, Assets(norm.path, ConfiguredMaxAge(assets_max_age)))
               /\ UNCHANGED log
    /\ UNCHANGED <<fs, attached, assets_dir, assets_max_age, req, consumed>>

\* the ignite phase of an application that did not attach the fairing
IgniteWithoutFairing ==
    /\ phase = "build"
    /\ ~attached
    /\ phase' = "ignited"
    /\ UNCHANGED <<fs, attached, assets_dir, assets_max_age, managed, log, req, consumed>>

\* AssetsFairing::on_liftoff: expect() panics without the state
OnLiftoff ==
    /\ phase = "ignited"
    /\ attached
    /\ IF State(managed) = <<>> THEN
           /\ phase' = "panicked"
           /\ UNCHANGED log
       ELSE
           /\ phase' = "orbit"
           /\ log' = Append(log, [what |-> "liftoff", path |-> State(managed)[1].path,
                                  age |-> State(managed)[1].cache_max_age])
    /\ UNCHANGED <<fs, attached, assets_dir, assets_max_age, managed, req, consumed>>

LiftoffWithoutFairing ==
    /\ phase = "ignited"
    /\ ~attached
    /\ phase' = "orbit"
    /\ UNCHANGED <<fs, attached, assets_dir, assets_max_age, managed, log, req, consumed>>

\* --------------------------------------------------------------- requests

\* the paths a route handler passes to Assets::open
RequestPaths ==
    { PathBuf(FALSE, <<"style.css">>, FALSE),
      PathBuf(FALSE, <<"logo.png">>, FALSE),
      PathBuf(FALSE, <<"missing.css">>, FALSE),
      PathBuf(FALSE, <<"..", "conf">>, FALSE),
      PathBuf(FALSE, <<"style.css", "x">>, FALSE),
      PathBuf(TRUE, <<"etc", "passwd">>, FALSE) }

\* variant of OrForward: or_error(()), a Failure without the state
MutOrFailure(opt) ==
    IF opt = <<>> THEN [kind |-> "Failure", value |-> <<>>]
    ELSE [kind |-> "Success", value |-> opt]
\* Option::or_forward(()): Success with the reference, Forward without one
OrForward(opt) ==
    IF opt = <<>> THEN [kind |-> "Forward", value |-> <<>>]
    ELSE [kind |-> "Success", value |-> opt]

\* <&Assets as FromRequest>::from_request
FromRequest(r) ==
    /\ phase = "orbit"
    /\ req[r].guard = <<>>
    /\ req' = [req EXCEPT ![r].guard = <<OrForward(State(managed))>>]
    /\ UNCHANGED <<fs, attached, assets_dir, assets_max_age, phase, managed, log, consumed>>

\* let mut asset_path = self.path.clone(); asset_path.push(path);
AssetPath(self, path) == Push(self.path, path)

\* variant of ManagedAfterOpen: self.path.push(path) without the clone
MutPushToSelf(mgd, path) == [mgd EXCEPT ![1].path = Push(@, path)]
\* open takes &self: the clone is pushed to, the registry is left as it is
ManagedAfterOpen(mgd, path) == mgd

\* variant of NamedFileOpen: an error is answered by an empty file
MutNamedFileOpenLenient(f, p) ==
    LET r == Resolve(f, p)
    IN  IF r.ok THEN [ok |-> TRUE, err |-> "", file |-> r.node]
        ELSE [ok |-> TRUE, err |-> "", file |-> <<>>]
\* NamedFile::open(..).await: the io::Result of opening the path for reading
\* (ENOENT is io::ErrorKind::NotFound, ENOTDIR is NotADirectory)
NamedFileOpen(f, p) ==
    LET r == Resolve(f, p)
    IN  IF r.ok THEN [ok |-> TRUE, err |-> "", file |-> r.node]
        ELSE IF r.err = "ENOENT" THEN [ok |-> FALSE, err |-> "NotFound", file |-> <<>>]
        ELSE [ok |-> FALSE, err |-> "NotADirectory", file |-> <<>>]

\* the cache_max_age an Asset is given by open
AssetMaxAge(self) == self.cache_max_age

\* Assets::open, called by the handler of request r with the guard's reference
Open(r, path) ==
    /\ req[r].guard # <<>>
    /\ req[r].guard[1].kind = "Success"
    /\ req[r].result = <<>>
    /\ LET self == req[r].guard[1].value[1]
           asset_path == AssetPath(self, path)
           file == NamedFileOpen(fs, asset_path)
       IN  /\ managed' = ManagedAfterOpen(managed, path)
           /\ req' = [req EXCEPT
                        ![r].opened = <<asset_path>>,
                        ![r].result = <<IF file.ok THEN "Ok" ELSE file.err>>,
                        ![r].asset = IF file.ok
                                     THEN <<[owner |-> r, file |-> file.file,
                                             cache_max_age |-> AssetMaxAge(self)]>>
                                     ELSE <<>>]
    /\ UNCHANGED <<fs, attached, assets_dir, assets_max_age, phase, log, consumed>>

\* header names compare without regard to case
Lower(name) ==
    CASE name \in {"Cache-control", "Cache-Control", "cache-control"} -> "cache-control"
      [] name \in {"Content-Type", "content-type"} -> "content-type"
      [] OTHER -> name

Header(name, value) == [name |-> name, value |-> value]

\* what NamedFile's responder can answer: an error, or a response with headers
\* of its own
FileResponses ==
    { [ok |-> FALSE, headers |-> <<>>],
      [ok |-> TRUE, headers |-> <<>>],
      [ok |-> TRUE, headers |-> <<Header("Content-Type", <<"p", "n", "g">>)>>],
      [ok |-> TRUE, headers |-> <<Header("cache-control", <<"n", "o", "-", "s", "t", "o", "r", "e">>),
                                  Header("Content-Type", <<"c", "s", "s">>),
                                  Header("Cache-Control", <<"m", "a", "x", "-", "a", "g", "e", "=", "0">>)>>] }

\* variant of RawHeader: raw_header_adjoin, which keeps the headers of that name
MutAdjoinRawHeader(headers, name, value) == Append(headers, Header(name, value))
\* Builder::raw_header: replaces every header of that name
RawHeader(headers, name, value) ==
    LET Other(h) == Lower(h.name) # Lower(name)
    IN  Append(SelectSeq(headers, Other), Header(name, value))

\* respond_to takes self: the Asset is moved out of the handler's hands
Moved(asset) == <<>>

\* <Asset as Responder>::respond_to, called by Rocket with the Asset the
\* handler returned
RespondTo(r, base) ==
    /\ req[r].asset # <<>>
    /\ LET self == req[r].asset[1]
           cache_control == CacheControlValue(self.cache_max_age)
       IN  req' = [req EXCEPT
                     ![r].asset = Moved(@),
                     ![r].response = IF base.ok
                                     THEN <<[headers |-> RawHeader(base.headers, "Cache-control", cache_control),
                                             file |-> self.file]>>
                                     ELSE <<>>,
                     ![r].respond_err = ~base.ok]
    /\ consumed' = [consumed EXCEPT ![r] = @ + 1]
    /\ UNCHANGED <<fs, attached, assets_dir, assets_max_age, phase, managed, log>>

Next ==
    \/ OnIgnite
    \/ IgniteWithoutFairing
    \/ OnLiftoff
    \/ LiftoffWithoutFairing
    \/ \E r \in Requests : FromRequest(r)
    \/ \E r \in Requests, path \in RequestPaths : Open(r, path)
    \/ \E r \in Requests, base \in FileResponses : RespondTo(r, base)

Spec == Init /\ [][Next]_vars

\* ----------------------------------------------------- reading the state

\* the registry Rocket manages (when there is one)
Registry == managed[1]

Served(r) == req[r].response # <<>>

\* the Cache-Control headers of a response, whatever the case of the name
CacheControlHeaders(response) ==
    LET IsCacheControl(h) == Lower(h.name) = "cache-control"
    IN  SelectSeq(response.headers, IsCacheControl)

DigitValue(c) == CHOOSE d \in 0..9 : Digits[d + 1] = c

IsDigits(text) == text # <<>> /\ \A i \in 1..Len(text) : \E d \in 0..9 : Digits[d + 1] = text[i]

RECURSIVE ParseNat(_)
\* the number a sequence of digits denotes
ParseNat(text) ==
    IF text = <<>> THEN 0
    ELSE 10 * ParseNat(SubSeq(text, 1, Len(text) - 1)) + DigitValue(text[Len(text)])

\* text is the decimal numeral of n: digits, a leading minus for a negative
\* number, no leading zeros
IsDecimalOf(text, n) ==
    LET digits == IF text # <<>> /\ Head(text) = "-" THEN Tail(text) ELSE text
    IN  /\ IsDigits(digits)
        /\ Len(digits) = 1 \/ Head(digits) # "0"
        /\ (text[1] = "-") = (n < 0)
        /\ ParseNat(digits) = (IF n < 0 THEN 0 - n ELSE n)

\* text is exactly "max-age=<n>"
IsMaxAgeOf(text, n) ==
    /\ Len(text) > Len(MaxAgePrefix)
    /\ SubSeq(text, 1, Len(MaxAgePrefix)) = MaxAgePrefix
    /\ IsDecimalOf(SubSeq(text, Len(MaxAgePrefix) + 1, Len(text)), n)

\* the directory on_ignite is to use, as the configuration and the default
\* give it (relative to the working directory)
DirInUse == IF assets_dir.kind = "value" THEN assets_dir.path
            ELSE PathBuf(FALSE, <<"assets">>, TRUE)

IsPathPrefix(base, p) ==
    /\ base.abs = p.abs
    /\ Len(base.comps) <= Len(p.comps)
    /\ SubSeq(p.comps, 1, Len(base.comps)) = base.comps

\* ----------------------------------------------------------------- claims

\* C1: every response produced by respond_to carries Cache-Control exactly
\* once, with the value "max-age=N", N the registry's max-age in decimal,
\* whatever headers the file response had.
C1_CacheControlExactlyOnce ==
    \A r \in Requests :
        Served(r) =>
            LET cc == CacheControlHeaders(req[r].response[1])
            IN  /\ Len(cc) = 1
                /\ IsMaxAgeOf(cc[1].value, Registry.cache_max_age)

\* a response was built on a file response that had Cache-Control headers of
\* its own, for a configured max-age of 3600
C1_Witness ==
    \E r \in Requests :
        /\ Served(r)
        /\ assets_max_age = [kind |-> "i32", value |-> 3600]
        /\ \E i \in 1..Len(req[r].response[1].headers) :
              req[r].response[1].headers[i] = Header("Content-Type", <<"c", "s", "s">>)

\* C2 (as claimed): a present assets_max_age that is no i32 aborts startup, no
\* registry is registered and no request is accepted; a registered max-age is
\* the configured one, or 86400 when the key is absent.
C2_MalformedMaxAgeAbortsStartup ==
    /\ (attached /\ phase # "build" /\ assets_max_age.kind \in {"wrongtype", "toobig"})
          => /\ phase = "failed"
             /\ managed = <<>>
             /\ \A r \in Requests : req[r].guard = <<>>
    /\ managed # <<>> =>
          \/ assets_max_age.kind = "missing" /\ Registry.cache_max_age = 86400
          \/ assets_max_age.kind = "i32" /\ Registry.cache_max_age = assets_max_age.value

\* C3: when the directory to use cannot be resolved, on_ignite fails without
\* registering a registry, liftoff is never reached and no request is handled;
\* whenever a request is handled with the fairing attached, the registry's path
\* is the canonical path of the directory in use, and that path exists.
C3_UnresolvableDirAbortsStartup ==
    /\ (attached /\ phase # "build" /\ assets_dir.kind # "wrongtype" /\ ~Resolve(fs, DirInUse).ok)
          => /\ phase = "failed"
             /\ managed = <<>>
             /\ \A r \in Requests : req[r].guard = <<>>
    /\ (attached /\ \E r \in Requests : req[r].guard # <<>>)
          => /\ managed # <<>>
             /\ Resolve(fs, DirInUse).ok
             /\ Registry.path = PathBuf(TRUE, Resolve(fs, DirInUse).node, FALSE)
             /\ KindOf(fs, Registry.path.comps) \in {"dir", "file"}

\* on_ignite has failed on a configured directory that does not exist
C3_Witness ==
    /\ phase = "failed"
    /\ assets_dir.kind = "value"
    /\ assets_dir.path.comps = <<"nope">>
    /\ log # <<>>
    /\ log[Len(log)].what = "invalid_dir"

\* the defaults apply and assets/ is a directory of the working directory
DefaultsApply ==
    /\ attached
    /\ assets_dir.kind = "missing"
    /\ assets_max_age.kind = "missing"
    /\ fs[<<"srv", "assets">>] = "dir"

\* C4: with neither key configured and assets/ a directory, on_ignite succeeds
\* and registers the canonical assets/ path with max-age 86400, and every
\* served asset carries max-age=86400.
C4_DefaultsRegistered ==
    (DefaultsApply /\ phase # "build") =>
        /\ phase \in {"ignited", "orbit"}
        /\ managed = <<Assets(PathBuf(TRUE, <<"srv", "assets">>, FALSE), 86400)>>
        /\ \A r \in Requests :
              Served(r) =>
                  /\ Len(CacheControlHeaders(req[r].response[1])) = 1
                  /\ CacheControlHeaders(req[r].response[1])[1].value
                        = <<"m", "a", "x", "-", "a", "g", "e", "=", "8", "6", "4", "0", "0">>

\* an asset of the default directory was served under the defaults
C4_Witness ==
    /\ DefaultsApply
    /\ \E r \in Requests :
          /\ Served(r)
          /\ req[r].response[1].file = <<"srv", "assets", "logo.png">>

\* request r called open and the path it handed to the file-open primitive
\* does not exist
OpenedMissing(r) == req[r].opened # <<>> /\ ~Resolve(fs, req[r].opened[1]).ok

\* what C5 says of a failed open besides the kind of the error: an error value
\* came back to the handler, no Asset and no response exist, respond_to never
\* ran, nothing panicked, and the registry is the one the guard handed out
OpenFailedCleanly(r) ==
    /\ req[r].result # <<>>
    /\ req[r].result[1] # "Ok"
    /\ req[r].asset = <<>>
    /\ req[r].response = <<>>
    /\ ~req[r].respond_err
    /\ consumed[r] = 0
    /\ phase = "orbit"
    /\ managed = req[r].guard[1].value

\* C5 (as claimed): open of a relative path that does not exist under the base
\* directory returns a not-found error; no panic, no Asset, no response, the
\* registry unchanged.  (Stated for a base directory that is a directory.)
C5_MissingIsNotFound ==
    \A r \in Requests :
        (/\ OpenedMissing(r)
         /\ KindOf(fs, Registry.path.comps) = "dir"
         /\ IsPathPrefix(Registry.path, req[r].opened[1]))
            => /\ OpenFailedCleanly(r)
               /\ req[r].result[1] = "NotFound"

\* C5 (amended): open of a path that does not exist returns an io::Error value
\* to the handler: NotFound when a component of the path is missing,
\* NotADirectory when the path descends through something that is no
\* directory; no panic, no Asset, no response, the registry unchanged.
C5_MissingIsError ==
    \A r \in Requests :
        OpenedMissing(r) =>
            /\ OpenFailedCleanly(r)
            /\ req[r].result[1] \in {"NotFound", "NotADirectory"}
            /\ (req[r].result[1] = "NotFound") = (Resolve(fs, req[r].opened[1]).err = "ENOENT")

\* both errors have come back from open, each for a path under a base
\* directory that is a directory
C5_Witness ==
    /\ managed # <<>>
    /\ KindOf(fs, Registry.path.comps) = "dir"
    /\ \E r1, r2 \in Requests :
          /\ OpenedMissing(r1) /\ req[r1].result = <<"NotFound">>
          /\ OpenedMissing(r2) /\ req[r2].result = <<"NotADirectory">>
          /\ IsPathPrefix(Registry.path, req[r1].opened[1])
          /\ IsPathPrefix(Registry.path, req[r2].opened[1])

\* C6: one registry at most, registered during ignite before any request;
\* once registered it never changes; an Asset belongs to the request that
\* opened it and goes through respond_to at most once.
C6_RegistryImmutable ==
    /\ [](/\ Len(managed) <= 1
          /\ (\E r \in Requests : req[r].guard # <<>>) => phase = "orbit"
          /\ \A r \in Requests :
                /\ consumed[r] <= 1
                /\ req[r].asset # <<>> => (req[r].asset[1].owner = r /\ consumed[r] = 0))
    /\ [][/\ managed # <<>> => managed' = managed
          /\ managed' # managed => (phase = "build" /\ \A r \in Requests : req[r].guard = <<>>)]_vars

\* every request opened an asset and had it answered, one of them by an error
\* of the file responder
C6_Witness ==
    /\ \A r \in Requests : req[r].opened # <<>> /\ consumed[r] = 1 /\ req[r].asset = <<>>
    /\ \E r \in Requests : Served(r)
    /\ \E r \in Requests : req[r].respond_err

\* C7: the guard succeeds with the registered registry when there is one and
\* forwards (no failure, no panic) when there is none.
C7_GuardSuccessOrForward ==
    \A r \in Requests :
        req[r].guard # <<>> =>
            /\ phase # "panicked"
            /\ managed # <<>> => req[r].guard[1] = [kind |-> "Success", value |-> <<Registry>>]
            /\ managed = <<>> => req[r].guard[1] = [kind |-> "Forward", value |-> <<>>]

\* a request was forwarded in an application without the fairing
C7_Witness ==
    /\ ~attached
    /\ \E r \in Requests : req[r].guard # <<>> /\ req[r].guard[1].kind = "Forward"

\* C8 (as claimed): when the directory in use resolves to something that is
\* no directory, on_ignite fails and registers nothing; a registered base
\* directory is a directory.
C8_DirMustBeDirectory ==
    /\ (/\ attached /\ phase # "build" /\ assets_dir.kind # "wrongtype"
        /\ Resolve(fs, [DirInUse EXCEPT !.slash = FALSE]).ok
        /\ KindOf(fs, Resolve(fs, [DirInUse EXCEPT !.slash = FALSE]).node) # "dir")
          => (phase = "failed" /\ managed = <<>>)
    /\ managed # <<>> => KindOf(fs, Registry.path.comps) = "dir"

\* C9 (as claimed): the path handed to the file-open primitive has the
\* registry's base directory as a prefix, whatever path open was given.
C9_BaseIsPrefixOfOpened ==
    \A r \in Requests :
        req[r].opened # <<>> => IsPathPrefix(Registry.path, req[r].opened[1])

\* C10 (as claimed): the registered max-age is >= 0, and so is the N of every
\* max-age=N header.
C10_MaxAgeNonNegative ==
    /\ managed # <<>> => Registry.cache_max_age >= 0
    /\ \A r \in Requests :
          Served(r) =>
              \A i \in 1..Len(CacheControlHeaders(req[r].response[1])) :
                  CacheControlHeaders(req[r].response[1])[i].value[Len(MaxAgePrefix) + 1] # "-"

====
